---- MODULE Spec2Model ----
(***************************************************************************)
(* Casandra: the REIT scoring pipeline (casandra/demo_pipeline.py) with    *)
(* the property extractor (casandra/property_parser.py), the climate       *)
(* scorer (casandra/climate_risk.py), the geocoder (casandra/geocode.py),  *)
(* the carbon scorer (casandra/carbon_intensity.py) and the combiner       *)
(* (casandra/scoring.py).                                                  *)
(*                                                                         *)
(* Text is a sequence of one-character strings.  Scores that the pipeline  *)
(* holds as floats are held in hundredths of a point (Cents), a mean as    *)
(* the exact fraction [num, den] of hundredths.                            *)
(***************************************************************************)
EXTENDS Integers, Sequences, FiniteSets, TLC

VARIABLES
    \* ---- one run of score_reit and its caller
    pc,          \* position of the run in score_reit
    caller,      \* who calls score_reit: "app", "run_price_projection", "run_demo"
    max_props,   \* the max_props value the caller was given (0: the caller has none)
    has10k,      \* filing repository: a 10-K is among the recent filings of the key
    doc,         \* filing repository: the primary document, a sequence of nodes
    props,       \* score_reit: props
    idx,         \* score_reit: position of the for loop in props (1-based)
    cur,         \* score_reit: locals of the current / last loop iteration
    c_scores,    \* score_reit: c_scores
    failures,    \* score_reit: failures
    pause,       \* seconds slept since the last geocode request was sent
    geocalls,    \* number of geocode requests sent so far
    gapAtCall,   \* seconds slept between the last two geocode requests
    climate,     \* score_reit: climate
    carbon_df,   \* the rows of the carbon csv read by the run
    ci,          \* score_reit: ci
    carbon,      \* score_reit: carbon
    titles,      \* what fetch_news_titles returned for the three windows
    gov,         \* score_reit: gov_1y, gov_5y, gov_10y
    result,      \* <<>> until score_reit returns, then <<the returned dict>>
    err,         \* class of the exception that left score_reit, "" if none
    cause,       \* what went wrong when err was raised, "" if nothing
    \* ---- the carbon scorer applied to a dataset
    cs_pc, cs_df, cs_ticker, cs_ci, cs_ci2, cs_score,
    \* ---- the extractor applied to a table
    px_pc, px_table, px_full, px_out, px_col0,
    px_steps,    \* parse_property_addresses: the markups it has parsed, in order
    \* ---- the section locator applied to a document
    lc_pc, lc_doc, lc_out,
    \* ---- one rerun of app.py: sliders, user_weights, sub-scores, final scores
    app_pc, app_sliders, user_weights, app_scores, app_final, app_pipeline,
    \* ---- project_prices_from_scores applied to a price, scores and betas
    pj_pc, pj_in, pj_out

pvars == <<pc, caller, max_props, has10k, doc, props, idx, cur, c_scores, failures,
           pause, geocalls, gapAtCall, climate, carbon_df, ci, carbon, titles, gov,
           result, err, cause>>
cvars == <<cs_pc, cs_df, cs_ticker, cs_ci, cs_ci2, cs_score>>
xvars == <<px_pc, px_table, px_full, px_out, px_col0, px_steps>>
lvars == <<lc_pc, lc_doc, lc_out>>
avars == <<app_pc, app_sliders, user_weights, app_scores, app_final, app_pipeline>>
jvars == <<pj_pc, pj_in, pj_out>>
vars == <<pvars, cvars, xvars, lvars, avars, jvars>>

----------------------------------------------------------------------------
(* Bounds of the model *)

MaxRows == 2        \* rows of the properties table of a filing
MaxCapArg == 2      \* largest max_props a caller passes
MaxCarbonRows == 2  \* rows of a carbon dataset
MaxPxRows == 2      \* data rows of a table handed to the extractor
MaxNodes == 3       \* nodes of a document handed to the section locator
MaxKgCents == 2600  \* largest intensity handed to carbon_score_0_100, in 0.01 kg/sqm

NoValue == 0 - 1    \* a local that holds no number yet

----------------------------------------------------------------------------
(* Text helpers: str.strip, regular expressions of property_parser.py *)

WS == {" ", "nbsp", "nl"}
DigitChars == {"0", "1", "2", "3", "4", "5", "6", "7", "8", "9"}
UpperChars == {"P", "R", "O", "E", "T", "Y", "I", "S", "G", "M", "N", "A", "B", "L", "C", "U"}
LowerOf == [c \in UpperChars |->
              CASE c = "P" -> "p" [] c = "R" -> "r" [] c = "O" -> "o" [] c = "E" -> "e"
                [] c = "T" -> "t" [] c = "Y" -> "y" [] c = "I" -> "i" [] c = "S" -> "s"
                [] c = "G" -> "g" [] c = "M" -> "m" [] c = "N" -> "n" [] c = "A" -> "a"
                [] c = "B" -> "b" [] c = "L" -> "l" [] c = "C" -> "c" [] c = "U" -> "u"]
LowerChars == {LowerOf[c] : c \in UpperChars}
IsWordChar(c) == c \in UpperChars \cup LowerChars \cup DigitChars \cup {"_"}

LowerChar(c) == IF c \in UpperChars THEN LowerOf[c] ELSE c
Lower(s) == [k \in DOMAIN s |-> LowerChar(s[k])]

RECURSIVE LStrip(_)
LStrip(s) == IF s # <<>> /\ Head(s) \in WS THEN LStrip(Tail(s)) ELSE s

RECURSIVE RStrip(_)
RStrip(s) ==
    IF s # <<>> /\ s[Len(s)] \in WS THEN RStrip(SubSeq(s, 1, Len(s) - 1)) ELSE s

Strip(s) == RStrip(LStrip(s))

RECURSIVE DigitRun(_, _)
DigitRun(s, i) == IF i <= Len(s) /\ s[i] \in DigitChars THEN 1 + DigitRun(s, i + 1) ELSE 0

\* length of the match of \(\d+\) that starts at i, 0 when there is none
FootnoteLen(s, i) ==
    IF s[i] # "(" THEN 0
    ELSE LET d == DigitRun(s, i + 1)
         IN IF d >= 1 /\ i + 1 + d <= Len(s) /\ s[i + 1 + d] = ")" THEN d + 2 ELSE 0

RECURSIVE RemoveFootnotesFrom(_, _)
RemoveFootnotesFrom(s, i) ==
    IF i > Len(s) THEN <<>>
    ELSE LET m == FootnoteLen(s, i)
         IN IF m > 0 THEN RemoveFootnotesFrom(s, i + m)
            ELSE <<s[i]>> \o RemoveFootnotesFrom(s, i + 1)

\* str.replace(r"\(\d+\)", "", regex=True)
RemoveFootnotes(s) == RemoveFootnotesFrom(s, 1)

RECURSIVE WsRun(_, _)
WsRun(s, i) == IF i <= Len(s) /\ s[i] \in WS THEN 1 + WsRun(s, i + 1) ELSE 0

RECURSIVE CollapseFrom(_, _)
CollapseFrom(s, i) ==
    IF i > Len(s) THEN <<>>
    ELSE LET r == WsRun(s, i)
         IN IF r >= 2 THEN <<" ">> \o CollapseFrom(s, i + r)
            ELSE <<s[i]>> \o CollapseFrom(s, i + 1)

\* str.replace(r"\s{2,}", " ", regex=True)
CollapseWs2(s) == CollapseFrom(s, 1)

RECURSIVE NormFrom(_, _)
NormFrom(s, i) ==
    IF i > Len(s) THEN <<>>
    ELSE LET r == WsRun(s, i)
         IN IF r >= 1 THEN <<" ">> \o NormFrom(s, i + r)
            ELSE <<s[i]>> \o NormFrom(s, i + 1)

\* _norm: every run of whitespace (non-breaking spaces too) becomes one space, then strip
Norm(s) == Strip(NormFrom(s, 1))

PROPERTY_WORD == <<"p", "r", "o", "p", "e", "r", "t", "y">>
PROPERTIES_WORD == <<"p", "r", "o", "p", "e", "r", "t", "i", "e", "s">>
SEGMENT_WORD == <<"s", "e", "g", "m", "e", "n", "t">>
LOCATION_WORD == <<"l", "o", "c", "a", "t", "i", "o", "n">>
NAN_TEXT == <<"n", "a", "n">>

\* s.str.fullmatch(r"(?i)property|properties")
FullMatchProperty(s) == Lower(s) \in {PROPERTY_WORD, PROPERTIES_WORD}

\* w occurs in s at position i
OccursAt(s, w, i) == i + Len(w) - 1 <= Len(s) /\ SubSeq(s, i, i + Len(w) - 1) = w

\* `cand in lc`
Contains(s, w) == \E i \in 1..Len(s) : OccursAt(s, w, i)

\* \b at the gap before position i of s
WordBoundary(s, i) ==
    LET before == i > 1 /\ IsWordChar(s[i - 1])
        after == i <= Len(s) /\ IsWordChar(s[i])
    IN before # after

\* s.str.contains(r"(?i)\bSEGMENT\b")
ContainsSegment(s) ==
    \E i \in 1..Len(s) :
        /\ OccursAt(Lower(s), SEGMENT_WORD, i)
        /\ WordBoundary(s, i)
        /\ WordBoundary(s, i + Len(SEGMENT_WORD))

\* pandas.read_html followed by astype(str): the text of a cell with its whitespace
\* squeezed; an empty cell is NaN, which astype(str) turns into the text "nan"
CellAsStr(raw) ==
    LET t == Strip(CollapseWs2(raw))
    IN IF t = <<>> THEN NAN_TEXT ELSE t

\* list(dict.fromkeys(xs)): the first occurrence of each value, in order
RECURSIVE DictFromKeys(_)
DictFromKeys(xs) ==
    IF xs = <<>> THEN <<>>
    ELSE LET init == DictFromKeys(SubSeq(xs, 1, Len(xs) - 1))
             last == xs[Len(xs)]
         IN IF \E k \in DOMAIN init : init[k] = last THEN init ELSE Append(init, last)

MapSeq(f(_), xs) == [k \in DOMAIN xs |-> f(xs[k])]

----------------------------------------------------------------------------
(* property_parser.py: the section locator and the extractor of score_reit *)

TextNode == [kind |-> "text", col0 |-> <<>>]
HeadingNode == [kind |-> "heading", col0 |-> <<>>]   \* a string SECTION_RE matches
EndNode == [kind |-> "end", col0 |-> <<>>]           \* a string NEXT_RE matches
TableNode(cells) == [kind |-> "table", col0 |-> cells]

ITEM_WORD == <<"i", "t", "e", "m">>
PART_WORD == <<"p", "a", "r", "t">>
II_WORD == <<"i", "i">>
SIGNATURES_WORD == <<"s", "i", "g", "n", "a", "t", "u", "r", "e", "s">>

\* (?i)\bW1[\s\u00A0]*W2\b matches s at i: the position after the match, 0 if none
WordGapWordEnd(s, w1, w2, i) ==
    IF ~(WordBoundary(s, i) /\ OccursAt(Lower(s), w1, i)) THEN 0
    ELSE LET j == i + Len(w1) + WsRun(s, i + Len(w1))
         IN IF OccursAt(Lower(s), w2, j) /\ WordBoundary(s, j + Len(w2))
            THEN j + Len(w2) ELSE 0

\* (?i)\bW\b matches s at i
WordAt(s, w, i) ==
    OccursAt(Lower(s), w, i) /\ WordBoundary(s, i) /\ WordBoundary(s, i + Len(w))

\* SECTION_RE.search(s): \bITEM[\s\u00A0]*2\b.*\bPROPERTIES\b, "." is no newline
SectionRe(s) ==
    \E i \in 1..Len(s) :
        LET e == WordGapWordEnd(s, ITEM_WORD, <<"2">>, i)
        IN /\ e # 0
           /\ \E j \in e..Len(s) :
                  /\ WordAt(s, PROPERTIES_WORD, j)
                  /\ \A k \in e..(j - 1) : s[k] # "nl"

\* NEXT_RE.search(s): \bITEM[\s\u00A0]*3\b|\bPART[\s\u00A0]*II\b|\bSIGNATURES\b
NextRe(s) ==
    \E i \in 1..Len(s) :
        \/ WordGapWordEnd(s, ITEM_WORD, <<"3">>, i) # 0
        \/ WordGapWordEnd(s, PART_WORD, II_WORD, i) # 0
        \/ WordAt(s, SIGNATURES_WORD, i)

IsTable(n) == n.kind = "table"

\* the first cell of table n that re matches, 0 if none
FirstCell(re(_), n, from) ==
    IF \E k \in from..Len(n.col0) : re(n.col0[k])
    THEN CHOOSE k \in from..Len(n.col0) :
             re(n.col0[k]) /\ \A m \in from..(k - 1) : ~re(n.col0[m])
    ELSE 0

\* node n holds a string SECTION_RE matches
HasHeading(n) == n.kind = "heading" \/ (IsTable(n) /\ FirstCell(SectionRe, n, 1) # 0)

\* soup.find(string=... SECTION_RE ...): the node of the first heading of the
\* document, 0 if none
HeadingIdx(d) ==
    IF \E i \in DOMAIN d : HasHeading(d[i])
    THEN CHOOSE i \in DOMAIN d : HasHeading(d[i]) /\ \A j \in 1..(i - 1) : ~HasHeading(d[j])
    ELSE 0

\* node n holds a string NEXT_RE matches
HasEnd(n) == n.kind = "end" \/ (IsTable(n) /\ FirstCell(NextRe, n, 1) # 0)

\* heading_str.find_next(string=... NEXT_RE ...): the node of the first boundary
\* after the heading (node h itself when a later cell of the heading's table is
\* the boundary), Len(d) + 1 if none
EndIdx(d, h) ==
    IF IsTable(d[h]) /\ FirstCell(NextRe, d[h], FirstCell(SectionRe, d[h], 1) + 1) # 0
    THEN h
    ELSE IF \E i \in (h + 1)..Len(d) : HasEnd(d[i])
    THEN CHOOSE i \in (h + 1)..Len(d) :
             HasEnd(d[i]) /\ \A j \in (h + 1)..(i - 1) : ~HasEnd(d[j])
    ELSE Len(d) + 1

\* lines 51-63 at the node of end_str: a table whose only string is end_str
\* stops the walk (cur.string is end_str); any other table holding end_str is
\* appended, and the walk stops inside it
AppendedAtEnd(d, h, e) ==
    IF e > h /\ e <= Len(d) /\ IsTable(d[e]) /\ Len(d[e].col0) # 1
    THEN <<d[e]>> ELSE <<>>

\* extract_item2_tables_html: <<>> is None, else <<the tables appended>>
ExtractItem2TablesHtml(d) ==
    LET h == HeadingIdx(d)
    IN IF h = 0 THEN <<>>
       ELSE LET e == EndIdx(d, h)
                tables == SelectSeq(SubSeq(d, h + 1, e - 1), IsTable)
                              \o AppendedAtEnd(d, h, e)
            IN IF tables # <<>> THEN <<tables>> ELSE <<>>

NotEmptyText(s) == s # <<>>
NotPropertyHeader(s) == ~FullMatchProperty(s)
NotSegment(s) == ~ContainsSegment(s)
StripCell(raw) == Strip(CellAsStr(raw))
CleanAddress(s) == Strip(CollapseWs2(RemoveFootnotes(s)))

\* extract_addresses_from_table0_col0, lines 146-150: the cleaned texts of column 0
Col0Texts(col) ==
    LET s1 == MapSeq(StripCell, col)
        s2 == SelectSeq(s1, NotEmptyText)
        s3 == SelectSeq(s2, NotPropertyHeader)
        s4 == SelectSeq(s3, NotSegment)
    IN MapSeq(CleanAddress, s4)

\* extract_addresses_from_table0_col0, line 152
AddressesOfCol0(col) == DictFromKeys(Col0Texts(col))

\* pandas.read_html on one table: a header row of <th> cells names the columns;
\* without one the columns are numbered and the first row is data
ReadHtml(t) ==
    IF t.th THEN [columns |-> t.header, data |-> t.rows]
    ELSE [columns |-> [k \in DOMAIN t.header |-> <<"0">>], data |-> <<t.header>> \o t.rows]

Column(df, c) == [k \in DOMAIN df.data |-> df.data[k][c]]

\* _find_col: the first column whose lower-cased name contains a candidate, 0 if none
FindCol(colnames, candidates) ==
    LET hit(i) == \E cand \in candidates : Contains(Lower(Strip(colnames[i])), cand)
    IN IF \E i \in DOMAIN colnames : hit(i)
       THEN CHOOSE i \in DOMAIN colnames : hit(i) /\ \A j \in 1..(i - 1) : ~hit(j)
       ELSE 0

BANNERS == {<<"r", "e", "s", "i", "d", "e", "n", "t", "i", "a", "l", " ", "c", "o", "m", "m", "u", "n", "i", "t", "i", "e", "s">>,
            <<"o", "f", "f", "i", "c", "e", " ", "b", "u", "i", "l", "d", "i", "n", "g">>,
            <<"o", "f", "f", "i", "c", "e", " ", "b", "u", "i", "l", "d", "i", "n", "g", "s">>,
            <<"r", "e", "t", "a", "i", "l">>,
            <<"i", "n", "d", "u", "s", "t", "r", "i", "a", "l">>}

\* parse_html_with_pandas, lines 100-126, for one table
RECURSIVE RowsToAddresses(_, _, _)
RowsToAddresses(data, p, l) ==
    IF data = <<>> THEN <<>>
    ELSE LET propv == Norm(CellAsStr(Head(data)[p]))
             locv == Norm(CellAsStr(Head(data)[l]))
             banner == locv = <<>> /\ Lower(propv) \in BANNERS
             valid == propv # <<>> /\ locv # <<>> /\ ~banner
             rest == RowsToAddresses(Tail(data), p, l)
         IN IF valid THEN <<[address |-> propv \o <<",", " ">> \o locv]>> \o rest
            ELSE rest

TableToAddresses(t) ==
    LET df == ReadHtml(t)
        cols == MapSeq(Norm, df.columns)
        prop_col == FindCol(cols, {PROPERTY_WORD, PROPERTIES_WORD})
        loc_col == FindCol(cols, {LOCATION_WORD})
    IN IF prop_col = 0 \/ loc_col = 0 THEN <<>>
       ELSE RowsToAddresses(df.data, prop_col, loc_col)

\* parse_html_with_pandas: the rows of every table of the fragment, in order
RECURSIVE ParseHtmlWithPandas(_)
ParseHtmlWithPandas(fragment) ==
    IF fragment = <<>> THEN <<>>
    ELSE TableToAddresses(Head(fragment)) \o ParseHtmlWithPandas(Tail(fragment))

\* ParsePropertyAddresses that prefers the full document whenever it is given
ParsePropertyAddresses_FullFirst(item2_html, full_html_if_needed) ==
    IF full_html_if_needed # <<>> THEN ParseHtmlWithPandas(full_html_if_needed)
    ELSE ParseHtmlWithPandas(item2_html)

\* parse_property_addresses, lines 129-132
ParsePropertyAddresses(item2_html, full_html_if_needed) ==
    LET first == ParseHtmlWithPandas(item2_html)
    IN IF first = <<>> /\ full_html_if_needed # <<>>
       THEN ParseHtmlWithPandas(full_html_if_needed)
       ELSE first

\* parse_property_addresses, lines 129-131: the markups handed to
\* parse_html_with_pandas, in the order of the calls
MarkupsParsed(item2_html, full_html_if_needed) ==
    IF ParseHtmlWithPandas(item2_html) = <<>> /\ full_html_if_needed # <<>>
    THEN <<"item2_html", "full_html_if_needed">>
    ELSE <<"item2_html">>

\* DataFrame.to_dict("records")
ToRecords(addresses) == [k \in DOMAIN addresses |-> [address |-> addresses[k]]]

MAX_NUM_PROP_PARSED == 10

Min(a, b) == IF a <= b THEN a ELSE b
Max(a, b) == IF a >= b THEN a ELSE b

\* props[:MAX_NUM_PROP_PARSED]
CapProps(ps) == SubSeq(ps, 1, Min(Len(ps), MAX_NUM_PROP_PARSED))

----------------------------------------------------------------------------
(* climate_risk.py *)

Cents == 100          \* hundredths of a point in one point
NEUTRAL == 50         \* the value the scorers return when they have no data
ELEV_FALLBACK == 50   \* what elevation_meters returns when the backend has no answer

Clamp(lo, hi, x) == Max(lo, Min(hi, x))

\* heat_risk_score for a 200 answer whose largest daily maximum is mx degrees
HeatRisk(mx) == Clamp(0, 100, (mx - 30) * 4 + 20)

\* heat_risk_score, in points
HeatRiskScore(resp) == IF resp.status # 200 THEN NEUTRAL ELSE HeatRisk(resp.mx)

\* elevation_meters, in meters
ElevationMeters(resp) ==
    IF resp.status # 200 THEN ELEV_FALLBACK
    ELSE IF resp.results # <<>> THEN resp.results[1]
    ELSE ELEV_FALLBACK

FloodOfElevation(elev) ==
    IF elev < 3 THEN 95
    ELSE IF elev < 10 THEN 80
    ELSE IF elev < 50 THEN 55
    ELSE IF elev < 200 THEN 30
    ELSE 15

\* flood_risk_score, in points
FloodRiskScore(resp) == FloodOfElevation(ElevationMeters(resp))

\* climate_risk_0_100, in hundredths: (heat + flood) / 2.0
ClimateRisk(heat, flood) == ((heat + flood) * Cents) \div 2

HeatResponses == {[status |-> 200, mx |-> 45], [status |-> 200, mx |-> 60],
                  [status |-> 500, mx |-> NoValue]}
ElevResponses == {[status |-> 200, results |-> <<2>>],
                  [status |-> 200, results |-> <<>>],
                  [status |-> 500, results |-> <<>>]}

HeatStatus(resp) == IF resp.status = 200 THEN "200" ELSE "non200"
ElevStatus(resp) ==
    IF resp.status # 200 THEN "non200"
    ELSE IF resp.results = <<>> THEN "noresults" ELSE "200"

----------------------------------------------------------------------------
(* carbon_intensity.py.  A number read from the csv is <<>> when the field is
   empty (NaN) and <<n>> otherwise.  An intensity is None, NaN or the fraction
   num / den. *)

TickerTexts == {"SPG", "spg", "VNO"}
UpperTicker == [t \in TickerTexts |-> IF t = "spg" THEN "SPG" ELSE t]

CiNone == [kind |-> "None", num |-> 0, den |-> 1]
CiNaN == [kind |-> "NaN", num |-> 0, den |-> 1]
CiNum(n, d) == [kind |-> "num", num |-> n, den |-> d]

\* df[df["ticker"].str.upper() == ticker.upper()].head(1): the index of the row, 0 if none
FirstMatch(df, ticker) ==
    IF \E i \in DOMAIN df : UpperTicker[df[i].ticker] = UpperTicker[ticker]
    THEN CHOOSE i \in DOMAIN df :
             /\ UpperTicker[df[i].ticker] = UpperTicker[ticker]
             /\ \A j \in 1..(i - 1) : UpperTicker[df[j].ticker] # UpperTicker[ticker]
    ELSE 0

\* carbon_intensity_from_csv: the function score_reit calls
CarbonIntensityFromCsv(df, ticker) ==
    LET i == FirstMatch(df, ticker)
    IN IF i = 0 THEN CiNone
       ELSE LET t == df[i].tonnes
                a == df[i].area
            IN IF a # <<>> /\ a[1] <= 0 THEN CiNone       \* nan <= 0 is False
               ELSE IF a = <<>> \/ t = <<>> THEN CiNaN    \* nan * 1000 / a, t * 1000 / nan
               ELSE CiNum(t[1] * 1000, a[1])

\* carbon_intensity_kg_per_sqm: the DataFrame variant, not called by score_reit
CarbonIntensityKgPerSqm(df, ticker) ==
    LET i == FirstMatch(df, ticker)
    IN IF i = 0 THEN CiNone
       ELSE LET t == df[i].tonnes
                gla == df[i].area
            IN IF t = <<>> \/ gla = <<>> \/ gla[1] = 0 THEN CiNone
               ELSE IF gla[1] > 0 THEN CiNum(t[1] * 1000, gla[1])
               ELSE CiNum(0 - t[1] * 1000, 0 - gla[1])

\* CiLess with the limit included
CiLess_Closed(kg, limit) == kg.kind = "num" /\ kg.num <= limit * kg.den

\* kg_per_sqm < limit; every comparison with NaN is False
CiLess(kg, limit) == kg.kind = "num" /\ kg.num < limit * kg.den

\* carbon_score_0_100, in points
CarbonScore(kg) ==
    IF kg.kind = "None" THEN NEUTRAL
    ELSE IF CiLess(kg, 3) THEN 10
    ELSE IF CiLess(kg, 8) THEN 35
    ELSE IF CiLess(kg, 15) THEN 60
    ELSE IF CiLess(kg, 25) THEN 80
    ELSE 95

----------------------------------------------------------------------------
(* governance_sentiment.py and scoring.py *)

RECURSIVE SumSeq(_)
SumSeq(xs) == IF xs = <<>> THEN 0 ELSE Head(xs) + SumSeq(Tail(xs))

\* GovernanceRisk without the neutral value for an empty list of titles
GovernanceRisk_NoNeutral(compounds) ==
    IF compounds = <<>> THEN 0
    ELSE Clamp(0, 100 * Cents,
               NEUTRAL * Cents - (45 * SumSeq(compounds)) \div Len(compounds))

\* governance_risk_score_0_100 in hundredths, for the compound sentiments (in
\* hundredths) of the titles fetch_news_titles returned
GovernanceRisk(compounds) ==
    IF compounds = <<>> THEN NEUTRAL * Cents
    ELSE Clamp(0, 100 * Cents,
               NEUTRAL * Cents - (45 * SumSeq(compounds)) \div Len(compounds))

\* round(x, 2) of the fraction num / den of hundredths, ties to even
Round2(num, den) ==
    LET q == num \div den
        r == num % den
    IN IF 2 * r < den THEN q
       ELSE IF 2 * r > den THEN q + 1
       ELSE IF q % 2 = 0 THEN q ELSE q + 1

\* config.WEIGHTS: climate / den, carbon / den, gov / den
WEIGHTS == [climate |-> 1, carbon |-> 1, gov |-> 1, den |-> 3]

\* combine_scores in hundredths; climate_score is a fraction, the others whole hundredths
CombineScores(climate_score, carbon_score, gov_score) ==
    Round2(WEIGHTS.climate * climate_score.num
             + (WEIGHTS.carbon * carbon_score + WEIGHTS.gov * gov_score) * climate_score.den,
           WEIGHTS.den * climate_score.den)

\* NormalizeWeights without the equal thirds for sliders that are all 0
NormalizeWeights_NoDefault(a, b, c) ==
    [climate |-> a, carbon |-> b, gov |-> c, den |-> Max(1, a + b + c)]

\* app.py normalize_weights: the weights a / s, b / s, c / s as climate / den,
\* carbon / den, gov / den
NormalizeWeights(a, b, c) ==
    LET s == a + b + c
    IN IF s = 0 THEN [climate |-> 1, carbon |-> 1, gov |-> 1, den |-> 3]
       ELSE [climate |-> a, carbon |-> b, gov |-> c, den |-> s]

\* app.py combine(c, ca, g, w), in hundredths
AppCombine(c, ca, g, w) == Round2(w.climate * c + w.carbon * ca + w.gov * g, w.den)

\* positions of the sliders of app.py (per cent, 0..100)
SliderValues == {0, 1, 33, 50, 100}

\* ClimateAggregate without the neutral default: an empty list averages to 0
ClimateAggregate_NoDefault(scores) ==
    [num |-> SumSeq(scores), den |-> Max(1, Len(scores))]

\* score_reit line 93: the mean of c_scores, 50.0 when there is none
ClimateAggregate(scores) ==
    IF scores # <<>> THEN [num |-> SumSeq(scores), den |-> Len(scores)]
    ELSE [num |-> NEUTRAL * Cents, den |-> 1]

----------------------------------------------------------------------------
(* price_projection.py.  A score is in points, a beta in hundredths, a price in
   cents; an adjustment is the fraction num / PctDen, a projected price the
   fraction num / PctDen of cents. *)

PctDen == 100 * 50

\* _linear_adjustment without the clamp of the score
LinearAdjustment_NoClamp(score, beta) == beta * (score - 50)

\* _linear_adjustment: beta * (s - 50.0) / 50.0 with s the score clamped to [0, 100]
LinearAdjustment(score, beta) == beta * (Clamp(0, 100, score) - 50)

\* project_prices_from_scores: the fields of Projections
ProjectPricesFromScores(current_price, final_esg, beta) ==
    LET adj == [h \in 1..3 |-> LinearAdjustment(final_esg[h], beta[h])]
    IN [current_price |-> current_price,
        adj_pct |-> adj,
        price |-> [h \in 1..3 |-> current_price * (PctDen + adj[h])]]

DEFAULT_BETAS == <<10, 20, 30>>

----------------------------------------------------------------------------
(* One run of score_reit (demo_pipeline.py) under its callers *)

envv == <<caller, max_props, has10k, doc>>
timev == <<pause, geocalls, gapAtCall>>
loopv == <<props, idx, cur, c_scores, failures>>
tailv == <<climate, carbon_df, ci, carbon, titles, gov, result>>
errv == <<err, cause>>

RUN_DEMO_MAX_PROPS == 10   \* run_demo.py passes max_props=10
GEOCODE_SLEEP == 1         \* geocode_address: time.sleep(1) before a successful return
LOOP_SLEEP == 1            \* score_reit: time.sleep(1.0) at the end of an iteration

\* The callers of score_reit and the max_props each was given
Callers ==
    {[caller |-> "app", max_props |-> 0]}
    \cup {[caller |-> "run_price_projection", max_props |-> m] : m \in 1..MaxCapArg}
    \cup {[caller |-> "run_demo", max_props |-> RUN_DEMO_MAX_PROPS]}

\* Cells of column 0 of the properties table
MainCells == {<<"A">>, <<"A", " ", "(", "1", ")">>, <<"B">>, <<"(", "1", ")">>, <<>>}
ColLists == UNION {[1..n -> MainCells] : n \in 0..MaxRows}

\* Primary documents of the filing repository
Docs ==
    {<<TextNode>>, <<HeadingNode, TextNode, EndNode>>}
    \cup {<<HeadingNode, EndNode, TableNode(<<<<"A">>>>)>>}
    \cup {<<HeadingNode, TableNode(c), EndNode>> : c \in ColLists}

\* The carbon csv files a run reads
PipelineDatasets ==
    {<<>>,
     <<[ticker |-> "VNO", tonnes |-> <<50>>, area |-> <<10000>>]>>,
     <<[ticker |-> "spg", tonnes |-> <<50>>, area |-> <<10000>>]>>,
     <<[ticker |-> "SPG", tonnes |-> <<>>, area |-> <<10000>>]>>}
PipelineTicker == "SPG"

\* The compound sentiments (hundredths) of the titles of the three lookback windows
GovScenarios ==
    {[y1 |-> <<>>, y5 |-> <<>>, y10 |-> <<>>],
     [y1 |-> <<>>, y5 |-> <<0 - 100>>, y10 |-> <<0 - 100, 0>>],
     [y1 |-> <<100>>, y5 |-> <<100>>, y10 |-> <<100>>]}

NoCur == [k |-> 0, addr |-> <<>>, geo |-> "", heat_status |-> "", heat |-> NoValue,
          elev_status |-> "", flood |-> NoValue, score |-> NoValue]
NoFraction == [num |-> 0, den |-> 1]

\* The class of the exception each failure raises
RaisedKind(c) ==
    CASE c = "unexpected_keyword" -> "TypeError"      \* score_reit() has no max_props
      [] c = "no_filing" -> "RuntimeError"            \* latest_10k_primary_doc_url
      [] c = "http_error" -> "HTTPError"              \* r.raise_for_status()
      [] c = "section_not_found" -> "TypeError"       \* pd.read_html(None)
      [] c = "no_table_in_section" -> "TypeError"     \* pd.read_html(None)
      [] c = "carbon_csv" -> "FileNotFoundError"      \* pd.read_csv

Causes == {"unexpected_keyword", "no_filing", "http_error", "section_not_found",
           "no_table_in_section", "carbon_csv"}

PipelineInit ==
    /\ pc = "call"
    /\ \E c \in Callers : caller = c.caller /\ max_props = c.max_props
    /\ has10k \in BOOLEAN
    /\ doc \in IF has10k THEN Docs ELSE {<<>>}
    /\ props = <<>>
    /\ idx = 1
    /\ cur = NoCur
    /\ c_scores = <<>>
    /\ failures = <<>>
    /\ pause = 0
    /\ geocalls = 0
    /\ gapAtCall = 0
    /\ climate = NoFraction
    /\ carbon_df = <<>>
    /\ ci = CiNone
    /\ carbon = NoValue
    /\ titles = <<>>
    /\ gov = <<>>
    /\ result = <<>>
    /\ err = ""
    /\ cause = ""

PipelineIdle ==
    /\ pc = "idle"
    /\ caller = "" /\ max_props = 0 /\ has10k = FALSE /\ doc = <<>>
    /\ props = <<>> /\ idx = 1 /\ cur = NoCur /\ c_scores = <<>> /\ failures = <<>>
    /\ pause = 0 /\ geocalls = 0 /\ gapAtCall = 0
    /\ climate = NoFraction /\ carbon_df = <<>> /\ ci = CiNone /\ carbon = NoValue
    /\ titles = <<>> /\ gov = <<>> /\ result = <<>> /\ err = "" /\ cause = ""

Abort(c) ==
    /\ pc' = "aborted"
    /\ err' = RaisedKind(c)
    /\ cause' = c

\* run_demo.py: score_reit(..., max_props=10) is a TypeError, score_reit takes no max_props
CallRejected ==
    /\ pc = "call"
    /\ caller = "run_demo"
    /\ Abort("unexpected_keyword")
    /\ UNCHANGED <<envv, timev, loopv, tailv, cvars, xvars, lvars, avars, jvars>>

\* app.py, run_price_projection: score_reit(cik=, name=, ticker=)
CallAccepted ==
    /\ pc = "call"
    /\ caller # "run_demo"
    /\ pc' = "download"
    /\ UNCHANGED <<envv, timev, loopv, tailv, errv, cvars, xvars, lvars, avars, jvars>>

\* download_10k_text, line 51: no 10-K among the recent filings
DownloadNoFiling ==
    /\ pc = "download"
    /\ ~has10k
    /\ Abort("no_filing")
    /\ UNCHANGED <<envv, timev, loopv, tailv, cvars, xvars, lvars, avars, jvars>>

\* download_10k_text, lines 51 and 141: the repository answers with an HTTP error
DownloadHttpError ==
    /\ pc \in {"download", "extract"}
    /\ Abort("http_error")
    /\ UNCHANGED <<envv, timev, loopv, tailv, cvars, xvars, lvars, avars, jvars>>

\* download_10k_text, line 51
DownloadOk ==
    /\ pc = "download"
    /\ has10k
    /\ pc' = "extract"
    /\ UNCHANGED <<envv, timev, loopv, tailv, errv, cvars, xvars, lvars, avars, jvars>>

\* extract_addresses_from_table0_col0: extract_item2_tables_html returned None,
\* and pd.read_html(None) raises
ExtractRaises ==
    /\ pc = "extract"
    /\ ExtractItem2TablesHtml(doc) = <<>>
    /\ Abort(IF HeadingIdx(doc) = 0 THEN "section_not_found" ELSE "no_table_in_section")
    /\ UNCHANGED <<envv, timev, loopv, tailv, cvars, xvars, lvars, avars, jvars>>

\* score_reit lines 58-64: the addresses of table 0, capped
ExtractOk ==
    /\ pc = "extract"
    /\ ExtractItem2TablesHtml(doc) # <<>>
    /\ LET df0 == ExtractItem2TablesHtml(doc)[1][1]
       IN props' = CapProps(ToRecords(AddressesOfCol0(df0.col0)))
    /\ c_scores' = <<>>
    /\ failures' = <<>>
    /\ idx' = 1
    /\ pc' = "loop"
    /\ UNCHANGED <<envv, timev, cur, tailv, errv, cvars, xvars, lvars, avars, jvars>>

InLoop == pc = "loop" /\ idx <= Len(props)
\* p.get("address") or p.get("full_address") or ""
Addr == props[idx].address

\* MissingAddress that skips the property without recording it
MissingAddress_Unrecorded ==
    /\ InLoop
    /\ Addr = <<>>
    /\ cur' = [NoCur EXCEPT !.k = idx, !.addr = Addr]
    /\ idx' = idx + 1
    /\ UNCHANGED <<pc, envv, timev, props, c_scores, failures, tailv, errv, cvars, xvars, lvars, avars, jvars>>

\* lines 68-70
MissingAddress ==
    /\ InLoop
    /\ Addr = <<>>
    /\ failures' = Append(failures, [reason |-> "missing address", item |-> Addr])
    /\ cur' = [NoCur EXCEPT !.k = idx, !.addr = Addr]
    /\ idx' = idx + 1
    /\ UNCHANGED <<pc, envv, timev, props, c_scores, tailv, errv, cvars, xvars, lvars, avars, jvars>>

\* a geocode request leaves: the pause since the previous one is over
SendGeocode ==
    /\ geocalls' = geocalls + 1
    /\ gapAtCall' = pause

\* lines 72-76: requests.get or the parsing of its answer raises
GeocodeRaises ==
    /\ InLoop
    /\ Addr # <<>>
    /\ SendGeocode
    /\ pause' = 0
    /\ failures' = Append(failures, [reason |-> "geocode exception", item |-> Addr])
    /\ cur' = [NoCur EXCEPT !.k = idx, !.addr = Addr, !.geo = "exception"]
    /\ idx' = idx + 1
    /\ UNCHANGED <<pc, envv, props, c_scores, tailv, errv, cvars, xvars, lvars, avars, jvars>>

\* lines 78-80: geocode_address returned None (status not 200, or an empty list)
GeocodeNoCoordinates ==
    /\ InLoop
    /\ Addr # <<>>
    /\ SendGeocode
    /\ pause' = 0
    /\ \E how \in {"non200", "empty"} :
           cur' = [NoCur EXCEPT !.k = idx, !.addr = Addr, !.geo = how]
    /\ failures' = Append(failures, [reason |-> "no coordinates", item |-> Addr])
    /\ idx' = idx + 1
    /\ UNCHANGED <<pc, envv, props, c_scores, tailv, errv, cvars, xvars, lvars, avars, jvars>>

\* line 73: geocode_address sleeps, then returns the coordinates
GeocodeOk ==
    /\ InLoop
    /\ Addr # <<>>
    /\ SendGeocode
    /\ pause' = GEOCODE_SLEEP
    /\ cur' = [NoCur EXCEPT !.k = idx, !.addr = Addr, !.geo = "ok"]
    /\ pc' = "heat"
    /\ UNCHANGED <<envv, props, idx, c_scores, failures, tailv, errv, cvars, xvars, lvars, avars, jvars>>

\* lines 88-89: heat_risk_score raises (transport failure, max() of an empty list)
HeatRaises ==
    /\ pc = "heat"
    /\ cur' = [cur EXCEPT !.heat_status = "exception"]
    /\ failures' = Append(failures, [reason |-> "climate exception", item |-> cur.addr])
    /\ pc' = "sleep"
    /\ UNCHANGED <<envv, timev, props, idx, c_scores, tailv, errv, cvars, xvars, lvars, avars, jvars>>

\* heat_risk_score returns
HeatResponds ==
    /\ pc = "heat"
    /\ \E resp \in HeatResponses :
           cur' = [cur EXCEPT !.heat_status = HeatStatus(resp), !.heat = HeatRiskScore(resp)]
    /\ pc' = "elev"
    /\ UNCHANGED <<envv, timev, props, idx, c_scores, failures, tailv, errv, cvars, xvars, lvars, avars, jvars>>

\* lines 88-89: elevation_meters raises
ElevRaises ==
    /\ pc = "elev"
    /\ cur' = [cur EXCEPT !.elev_status = "exception"]
    /\ failures' = Append(failures, [reason |-> "climate exception", item |-> cur.addr])
    /\ pc' = "sleep"
    /\ UNCHANGED <<envv, timev, props, idx, c_scores, tailv, errv, cvars, xvars, lvars, avars, jvars>>

\* lines 83-85: flood_risk_score and climate_risk_0_100 return, the score is kept
ElevResponds ==
    /\ pc = "elev"
    /\ \E resp \in ElevResponses :
           LET flood == FloodRiskScore(resp)
               score == ClimateRisk(cur.heat, flood)
           IN /\ cur' = [cur EXCEPT !.elev_status = ElevStatus(resp), !.flood = flood,
                                    !.score = score]
              /\ c_scores' = Append(c_scores, score)
    /\ pc' = "sleep"
    /\ UNCHANGED <<envv, timev, props, idx, failures, tailv, errv, cvars, xvars, lvars, avars, jvars>>

\* line 91: time.sleep(1.0), then the next property
LoopSleep ==
    /\ pc = "sleep"
    /\ pause' = pause + LOOP_SLEEP
    /\ idx' = idx + 1
    /\ pc' = "loop"
    /\ UNCHANGED <<envv, geocalls, gapAtCall, props, cur, c_scores, failures, tailv,
                   errv, cvars, xvars, lvars, avars, jvars>>

\* line 93
Aggregate ==
    /\ pc = "loop"
    /\ idx > Len(props)
    /\ climate' = ClimateAggregate(c_scores)
    /\ pc' = "carbon"
    /\ UNCHANGED <<envv, timev, loopv, carbon_df, ci, carbon, titles, gov, result, errv,
                   cvars, xvars, lvars, avars, jvars>>

\* lines 103-104: pd.read_csv raises (no such file, no such column)
CarbonCsvError ==
    /\ pc = "carbon"
    /\ Abort("carbon_csv")
    /\ UNCHANGED <<envv, timev, loopv, tailv, cvars, xvars, lvars, avars, jvars>>

\* lines 103-106
CarbonStep ==
    /\ pc = "carbon"
    /\ \E df \in PipelineDatasets :
           /\ carbon_df' = df
           /\ ci' = CarbonIntensityFromCsv(df, PipelineTicker)
           /\ carbon' = CarbonScore(CarbonIntensityFromCsv(df, PipelineTicker)) * Cents
    /\ pc' = "governance"
    /\ UNCHANGED <<envv, timev, loopv, climate, titles, gov, result, errv, cvars, xvars, lvars, avars, jvars>>

\* lines 111-113
GovernanceStep ==
    /\ pc = "governance"
    /\ \E news \in GovScenarios :
           /\ titles' = <<news.y1, news.y5, news.y10>>
           /\ gov' = <<GovernanceRisk(news.y1), GovernanceRisk(news.y5),
                       GovernanceRisk(news.y10)>>
    /\ pc' = "combine"
    /\ UNCHANGED <<envv, timev, loopv, climate, carbon_df, ci, carbon, result, errv,
                   cvars, xvars, lvars, avars, jvars>>

\* PropertiesUsed that counts every property taken from the extractor
PropertiesUsed_All == Len(props)

\* line 129: len(c_scores)
PropertiesUsed == Len(c_scores)

\* the dict of lines 120-130
ScoreBundle ==
    [climate_score |-> Round2(climate.num, climate.den),
     carbon_score |-> carbon,
     gov_score_1y |-> gov[1],
     gov_score_5y |-> gov[2],
     gov_score_10y |-> gov[3],
     final_esg_1y |-> CombineScores(climate, carbon, gov[1]),
     final_esg_5y |-> CombineScores(climate, carbon, gov[2]),
     final_esg_10y |-> CombineScores(climate, carbon, gov[3]),
     n_properties_used |-> PropertiesUsed]

\* lines 116-130
Return ==
    /\ pc = "combine"
    /\ result' = <<ScoreBundle>>
    /\ pc' = "done"
    /\ UNCHANGED <<envv, timev, loopv, climate, carbon_df, ci, carbon, titles, gov, errv,
                   cvars, xvars, lvars, avars, jvars>>

PipelineNext ==
    \/ CallRejected \/ CallAccepted
    \/ DownloadNoFiling \/ DownloadHttpError \/ DownloadOk
    \/ ExtractRaises \/ ExtractOk
    \/ MissingAddress \/ GeocodeRaises \/ GeocodeNoCoordinates \/ GeocodeOk
    \/ HeatRaises \/ HeatResponds \/ ElevRaises \/ ElevResponds \/ LoopSleep
    \/ Aggregate \/ CarbonCsvError \/ CarbonStep \/ GovernanceStep \/ Return

----------------------------------------------------------------------------
(* The carbon scorer and the extractor on their own *)

CarbonIdle ==
    /\ cs_pc = "idle" /\ cs_df = <<>> /\ cs_ticker = "" /\ cs_ci = CiNone
    /\ cs_ci2 = CiNone /\ cs_score = NoValue

ParserIdle ==
    /\ px_pc = "idle" /\ px_table = <<>> /\ px_full = <<>> /\ px_out = <<>>
    /\ px_col0 = <<>> /\ px_steps = <<>>

LocatorIdle == lc_pc = "idle" /\ lc_doc = <<>> /\ lc_out = <<>>

AppIdle ==
    /\ app_pc = "idle" /\ app_sliders = <<>> /\ user_weights = <<>>
    /\ app_scores = <<>> /\ app_final = <<>> /\ app_pipeline = <<>>

ProjectionIdle == pj_pc = "idle" /\ pj_in = <<>> /\ pj_out = <<>>

Init == PipelineInit /\ CarbonIdle /\ ParserIdle /\ LocatorIdle /\ AppIdle /\ ProjectionIdle
Next == PipelineNext
Spec == Init /\ [][Next]_vars

\* The steps of a run that are bound to end: local computation, time.sleep, and
\* the calls made with timeout=REQUEST_TIMEOUT (edgar_scraper.py, geocode.py,
\* climate_risk.py), which return or raise once the timeout has passed.
\* fetch_news_titles calls feedparser.parse(url, request_headers=...) with no
\* timeout: nothing bounds GovernanceStep.
TimedSteps ==
    \/ CallRejected \/ CallAccepted
    \/ DownloadNoFiling \/ DownloadHttpError \/ DownloadOk
    \/ ExtractRaises \/ ExtractOk
    \/ MissingAddress \/ GeocodeRaises \/ GeocodeNoCoordinates \/ GeocodeOk
    \/ HeatRaises \/ HeatResponds \/ ElevRaises \/ ElevResponds \/ LoopSleep
    \/ Aggregate \/ CarbonCsvError \/ CarbonStep \/ Return

\* a run under backends that may never answer
SpecLive == Init /\ [][Next]_vars /\ WF_vars(TimedSteps)

\* ---- carbon_intensity_from_csv and carbon_score_0_100 on a dataset

CarbonRows ==
    [ticker : TickerTexts,
     tonnes : {<<>>, <<0>>, <<50>>},
     area : {<<>>, <<0>>, <<2000>>, <<10000>>}]
CarbonDatasets == UNION {[1..n -> CarbonRows] : n \in 0..MaxCarbonRows}

CarbonInit ==
    /\ cs_pc = "input"
    /\ cs_df \in CarbonDatasets
    /\ cs_ticker \in {"SPG", "spg"}
    /\ cs_ci = CiNone
    /\ cs_ci2 = CiNone
    /\ cs_score = NoValue

\* score_reit line 104 (and the DataFrame variant on the same input)
LookupIntensity ==
    /\ cs_pc = "input"
    /\ cs_ci' = CarbonIntensityFromCsv(cs_df, cs_ticker)
    /\ cs_ci2' = CarbonIntensityKgPerSqm(cs_df, cs_ticker)
    /\ cs_pc' = "intensity"
    /\ UNCHANGED <<cs_df, cs_ticker, cs_score, pvars, xvars, lvars, avars, jvars>>

\* score_reit line 106
ScoreIntensity ==
    /\ cs_pc = "intensity"
    /\ cs_score' = CarbonScore(cs_ci)
    /\ cs_pc' = "scored"
    /\ UNCHANGED <<cs_df, cs_ticker, cs_ci, cs_ci2, pvars, xvars, lvars, avars, jvars>>

CarbonNext == LookupIntensity \/ ScoreIntensity
InitCarbon ==
    PipelineIdle /\ CarbonInit /\ ParserIdle /\ LocatorIdle /\ AppIdle /\ ProjectionIdle
SpecCarbon == InitCarbon /\ [][CarbonNext]_vars

\* ---- carbon_score_0_100 on an intensity

\* the arguments: None, and the intensities from -1.00 to MaxKgCents / 100 kg/sqm
KgInputs == {CiNone} \cup {CiNum(n, Cents) : n \in (0 - Cents)..MaxKgCents}

CarbonScoreInit ==
    /\ cs_pc = "intensity"
    /\ cs_df = <<>>
    /\ cs_ticker = ""
    /\ cs_ci \in KgInputs
    /\ cs_ci2 = CiNone
    /\ cs_score = NoValue

CarbonScoreNext == ScoreIntensity
InitCarbonScore ==
    PipelineIdle /\ CarbonScoreInit /\ ParserIdle /\ LocatorIdle /\ AppIdle /\ ProjectionIdle
SpecCarbonScore == InitCarbonScore /\ [][CarbonScoreNext]_vars

\* ---- parse_property_addresses and extract_addresses_from_table0_col0 on a table

HDR_PROPERTY == <<"P", "r", "o", "p", "e", "r", "t", "y">>
HDR_LOCATION == <<"L", "o", "c", "a", "t", "i", "o", "n">>
HDR_TYPE == <<"T", "y", "p", "e">>
PxCells == {<<"A">>, <<"B">>, <<>>, <<"(", "1", ")">>, <<"R", "e", "t", "a", "i", "l">>}
PxRows == {<<a, b>> : a \in PxCells, b \in PxCells}
PxTables ==
    [th : BOOLEAN,
     header : {<<HDR_PROPERTY, HDR_LOCATION>>, <<HDR_TYPE, HDR_LOCATION>>},
     rows : UNION {[1..n -> PxRows] : n \in 0..MaxPxRows}]
PxFullDocs ==
    {<<>>, <<[th |-> TRUE, header |-> <<HDR_PROPERTY, HDR_LOCATION>>,
              rows |-> <<<< <<"B">>, <<"A">> >>>>]>>}

ParserInit ==
    /\ px_pc = "input"
    /\ px_table \in {<<>>} \cup {<<t>> : t \in PxTables}
    /\ px_full \in PxFullDocs
    /\ px_out = <<>>
    /\ px_col0 = <<>>
    /\ px_steps = <<>>

\* parse_property_addresses(item2_html, full_html_if_needed)
ApplyParsePropertyAddresses ==
    /\ px_pc = "input"
    /\ px_out' = ParsePropertyAddresses(px_table, px_full)
    /\ px_steps' = MarkupsParsed(px_table, px_full)
    /\ px_pc' = "parsed"
    /\ UNCHANGED <<px_table, px_full, px_col0, pvars, cvars, lvars, avars, jvars>>

\* extract_addresses_from_table0_col0 lines 143-153 on the same fragment
ApplyExtractCol0 ==
    /\ px_pc = "parsed"
    /\ px_table # <<>>
    /\ px_col0' = ToRecords(AddressesOfCol0(Column(ReadHtml(px_table[1]), 1)))
    /\ px_pc' = "done"
    /\ UNCHANGED <<px_table, px_full, px_out, px_steps, pvars, cvars, lvars, avars, jvars>>

ParserNext == ApplyParsePropertyAddresses \/ ApplyExtractCol0
InitParser ==
    PipelineIdle /\ CarbonIdle /\ ParserInit /\ LocatorIdle /\ AppIdle /\ ProjectionIdle
SpecParser == InitParser /\ [][ParserNext]_vars

\* ---- extract_item2_tables_html on a document

ITEM2_TEXT == <<"I", "t", "e", "m", " ", "2", " ", "P", "r", "o", "p", "e", "r", "t", "i", "e", "s">>
ITEM3_TEXT == <<"I", "t", "e", "m", " ", "3">>
LcCells == {<<"A">>, ITEM2_TEXT, ITEM3_TEXT}
LcTables == {TableNode(c) : c \in UNION {[1..n -> LcCells] : n \in 1..2}}
LcNodes == {TextNode, HeadingNode, EndNode} \cup LcTables
LcDocs == UNION {[1..n -> LcNodes] : n \in 0..MaxNodes}

LocatorInit ==
    /\ lc_pc = "input"
    /\ lc_doc \in LcDocs
    /\ lc_out = <<>>

\* extract_item2_tables_html(html)
ApplyExtractItem2TablesHtml ==
    /\ lc_pc = "input"
    /\ lc_out' = ExtractItem2TablesHtml(lc_doc)
    /\ lc_pc' = "done"
    /\ UNCHANGED <<lc_doc, pvars, cvars, xvars, avars, jvars>>

LocatorNext == ApplyExtractItem2TablesHtml
InitLocator ==
    PipelineIdle /\ CarbonIdle /\ ParserIdle /\ LocatorInit /\ AppIdle /\ ProjectionIdle
SpecLocator == InitLocator /\ [][LocatorNext]_vars

\* ---- one rerun of app.py with "Run scoring" pressed

\* sub-scores of a bundle, in hundredths
ScoreValues == {0, 3333, 4000, 6000, 8000, 10000}
GovTriples == {<<0, 0, 0>>, <<8000, 8000, 8000>>, <<5000, 9500, 7250>>}
AppBundles ==
    {[climate_score |-> c, carbon_score |-> ca,
      gov_score_1y |-> g[1], gov_score_5y |-> g[2], gov_score_10y |-> g[3]] :
        c \in ScoreValues, ca \in ScoreValues, g \in GovTriples}

AppInit ==
    /\ app_pc = "sliders"
    /\ app_sliders \in {<<a, b, c>> : a \in SliderValues, b \in SliderValues, c \in SliderValues}
    /\ app_scores \in AppBundles
    /\ user_weights = <<>>
    /\ app_final = <<>>
    /\ app_pipeline = <<>>

\* app.py line 52: user_weights = normalize_weights(w_climate, w_carbon, w_gov)
NormalizeUserWeights ==
    /\ app_pc = "sliders"
    /\ user_weights' = <<NormalizeWeights(app_sliders[1], app_sliders[2], app_sliders[3])>>
    /\ app_pc' = "scoring"
    /\ UNCHANGED <<app_sliders, app_scores, app_final, app_pipeline, pvars, cvars, xvars,
                   lvars, jvars>>

\* app.py lines 61-76: score_reit returns; its final scores were made by
\* scoring.combine_scores, which takes no weights
PipelineCombines ==
    /\ app_pc = "scoring"
    /\ LET whole(x) == [num |-> x, den |-> 1]
           c == whole(app_scores.climate_score)
           ca == app_scores.carbon_score
       IN app_pipeline' = <<CombineScores(c, ca, app_scores.gov_score_1y),
                            CombineScores(c, ca, app_scores.gov_score_5y),
                            CombineScores(c, ca, app_scores.gov_score_10y)>>
    /\ app_pc' = "combine"
    /\ UNCHANGED <<app_sliders, user_weights, app_scores, app_final, pvars, cvars, xvars,
                   lvars, jvars>>

\* app.py lines 79-84: final_1y, final_5y, final_10y with the user's weights
UserCombines ==
    /\ app_pc = "combine"
    /\ LET c == app_scores.climate_score
           ca == app_scores.carbon_score
           w == user_weights[1]
       IN app_final' = <<AppCombine(c, ca, app_scores.gov_score_1y, w),
                         AppCombine(c, ca, app_scores.gov_score_5y, w),
                         AppCombine(c, ca, app_scores.gov_score_10y, w)>>
    /\ app_pc' = "shown"
    /\ UNCHANGED <<app_sliders, user_weights, app_scores, app_pipeline, pvars, cvars, xvars,
                   lvars, jvars>>

AppNext == NormalizeUserWeights \/ PipelineCombines \/ UserCombines
InitApp ==
    PipelineIdle /\ CarbonIdle /\ ParserIdle /\ LocatorIdle /\ AppInit /\ ProjectionIdle
SpecApp == InitApp /\ [][AppNext]_vars

\* ---- project_prices_from_scores on a price, three scores and three betas

PjPrices == {1, 2550, 100 * Cents}
PjScores == {0 - 20, 0, 25, 50, 60, 100, 130}
PjBetas == {DEFAULT_BETAS, <<0, 0, 0>>, <<100, 5, 250>>}

ProjectionInit ==
    /\ pj_pc = "input"
    /\ pj_in \in [current_price : PjPrices,
                   final_esg : {<<a, b, c>> : a \in PjScores, b \in PjScores, c \in PjScores},
                   beta : PjBetas]
    /\ pj_out = <<>>

\* project_prices_from_scores(current_price, final_esg_1y, final_esg_5y,
\* final_esg_10y, beta_1y, beta_5y, beta_10y)
ApplyProjectPrices ==
    /\ pj_pc = "input"
    /\ pj_out' = <<ProjectPricesFromScores(pj_in.current_price, pj_in.final_esg, pj_in.beta)>>
    /\ pj_pc' = "done"
    /\ UNCHANGED <<pj_in, pvars, cvars, xvars, lvars, avars>>

ProjectionNext == ApplyProjectPrices
InitProjection ==
    PipelineIdle /\ CarbonIdle /\ ParserIdle /\ LocatorIdle /\ AppIdle /\ ProjectionInit
SpecProjection == InitProjection /\ [][ProjectionNext]_vars

----------------------------------------------------------------------------
(* Properties of a run of score_reit *)

AfterLoop == pc \in {"carbon", "governance", "combine", "done"}
\* the loop has finished with property cur.k
IterationDone == cur.k >= 1 /\ pc \in {"loop", "sleep", "carbon", "governance", "combine", "done"}

FailureReasons == {"missing address", "geocode exception", "no coordinates",
                   "climate exception"}
FailedProps == {k \in 1..Len(props) :
                   \E j \in DOMAIN failures : failures[j].item = props[k].address}
\* properties whose geocoding gave coordinates
NResolved ==
    Len(c_scores)
    + Cardinality({j \in DOMAIN failures : failures[j].reason = "climate exception"})

\* C1: between any two successive geocode requests of a run at least the fixed
\* minimum delay is slept, whatever the outcome of the earlier request.
C1_PauseBetweenGeocodeCalls == geocalls >= 2 => gapAtCall >= LOOP_SLEEP

\* C2: while the loop runs, scores plus failures count the properties processed;
\* when the run returns, n_properties_used is the number of scores averaged into
\* climate, and each property is either among the scores or among the failures
\* (with a reason), never both and never neither.
C2_HonestAccounting ==
    /\ pc = "loop" => Len(c_scores) + Len(failures) = idx - 1
    /\ \A j \in DOMAIN failures : failures[j].reason \in FailureReasons
    /\ pc = "done" =>
           /\ result[1].n_properties_used = Len(c_scores)
           /\ c_scores # <<>> => climate.den = result[1].n_properties_used
           /\ Cardinality(FailedProps) = Len(failures)
           /\ result[1].n_properties_used = Len(props) - Cardinality(FailedProps)

C2_Witness ==
    /\ pc = "done"
    /\ Len(props) = 2
    /\ Len(c_scores) = 1
    /\ Len(failures) = 1

\* C3 as claimed: the climate score is the mean of the per-point scores when at
\* least one property resolved, and the neutral 50.0 only when none resolved.
C3_MeanWheneverResolved ==
    AfterLoop =>
        IF NResolved >= 1
        THEN /\ c_scores # <<>>
             /\ climate.num * Len(c_scores) = SumSeq(c_scores) * climate.den
        ELSE climate.num = NEUTRAL * Cents * climate.den

\* C3 as amended: the climate score is the mean of the per-point scores when at
\* least one property was scored, and the neutral 50.0 exactly when none was
\* scored, which includes points that resolved and whose hazard lookup raised;
\* the returned climate_score is that value rounded to two decimals.
C3_MeanOfScored ==
    /\ AfterLoop =>
           /\ climate.den > 0
           /\ IF c_scores # <<>>
              THEN climate.num * Len(c_scores) = SumSeq(c_scores) * climate.den
              ELSE climate.num = NEUTRAL * Cents * climate.den
    /\ pc = "done" =>
           LET d == result[1].climate_score * climate.den - climate.num
           IN 2 * d <= climate.den /\ 2 * (0 - d) <= climate.den

C3_Witness ==
    /\ pc = "done"
    /\ Len(c_scores) = 2
    /\ c_scores[1] # c_scores[2]
    /\ NResolved = 2

\* a hazard backend had no answer for the property, or the call raised
HazardUnavailable ==
    \/ cur.heat_status \in {"exception", "non200"}
    \/ cur.elev_status \in {"exception", "non200", "noresults"}
HazardRaised == cur.heat_status = "exception" \/ cur.elev_status = "exception"
NotGeocoded == cur.addr = <<>> \/ cur.geo \in {"exception", "non200", "empty"}

\* the last property was recorded as a failure and gave no score
RecordedAndSkipped ==
    /\ failures # <<>>
    /\ failures[Len(failures)].item = cur.addr
    /\ failures[Len(failures)].reason \in FailureReasons
    /\ cur.score = NoValue
    /\ Len(c_scores) + Len(failures) = cur.k

\* the last property gave the score at the end of c_scores and no failure
ScoredAndCounted ==
    /\ c_scores # <<>>
    /\ c_scores[Len(c_scores)] = cur.score
    /\ 2 * cur.score = (cur.heat + cur.flood) * Cents
    /\ \A j \in DOMAIN failures : failures[j].item # cur.addr
    /\ Len(c_scores) + Len(failures) = cur.k

\* C4 as claimed: a missing address, a geocode failure or an unavailable hazard
\* backend causes the property to be recorded with a reason and skipped.
C4_UnavailableHazardSkips ==
    IterationDone => ((NotGeocoded \/ HazardUnavailable) => RecordedAndSkipped)

\* C4 as amended: a missing address, a geocode failure or a hazard call that
\* raises causes the property to be recorded with a reason and skipped; a hazard
\* backend that answers without data does not: the property is scored with the
\* backend's fallback and counted.  The run goes on either way.
C4_RaisedHazardSkips ==
    IterationDone =>
        /\ (NotGeocoded \/ HazardRaised) => RecordedAndSkipped
        /\ ~(NotGeocoded \/ HazardRaised) => ScoredAndCounted

C4_Witness ==
    /\ pc = "loop"
    /\ cur.k = 2
    /\ cur.heat_status = "non200"
    /\ cur.score # NoValue
    /\ Len(c_scores) = 1
    /\ failures[1].reason = "climate exception"

\* C5: when the elevation backend is unavailable (status other than 200, or no
\* results), flood_risk_score returns the neutral 50.
C5_FloodNeutralWhenUnavailable ==
    cur.elev_status \in {"non200", "noresults"} => cur.flood = NEUTRAL

\* exception classes that name no particular failure
GenericKinds == {"Exception", "RuntimeError", "TypeError", "ValueError"}

\* C7: when there is no qualifying filing, or the Properties heading is not
\* found, score_reit returns nothing and raises an error of a kind of its own:
\* not a generic class, and one that no other failure raises.
C7_FatalErrorsIdentifiable ==
    (pc = "aborted" /\ cause \in {"no_filing", "section_not_found"}) =>
        /\ result = <<>>
        /\ err \notin GenericKinds
        /\ \A c \in Causes \ {cause} : RaisedKind(c) # err

\* C8: when the Properties heading is found and there is nothing to extract (no
\* table in the section, or every row filtered out), the extractor raises
\* nothing, and the run completes with climate score 50.0 and 0 properties used.
C8_EmptyExtractionCompletes ==
    /\ (pc = "aborted" /\ HeadingIdx(doc) # 0) =>
           cause \notin {"section_not_found", "no_table_in_section"}
    /\ (pc = "done" /\ props = <<>>) =>
           /\ result[1].climate_score = NEUTRAL * Cents
           /\ result[1].n_properties_used = 0

\* C10: the number of properties passed to the geocoding stage is capped by the
\* maximum the caller supplied (10 when it supplied none), applied after the
\* deduplication, keeping the first records.
C10_CallerCapInEffect ==
    /\ cause # "unexpected_keyword"
    /\ pc \in {"loop", "heat", "elev", "sleep", "carbon", "governance", "combine", "done"} =>
           LET cap == IF max_props > 0 THEN max_props ELSE MAX_NUM_PROP_PARSED
               all == ToRecords(AddressesOfCol0(ExtractItem2TablesHtml(doc)[1][1].col0))
           IN props = SubSeq(all, 1, Min(Len(all), cap))

\* C13: in a run in which zero properties are extracted, the carbon dataset has
\* no row for the ticker and the news backend returns no headline for any
\* window, the climate, carbon and governance scores are all 50.0 and the final
\* score is 50.00 at each of the three horizons, under the weights of the
\* pipeline and under every weight vector the user can set (summing to 1).
C13_AllNeutralGivesFifty ==
    (/\ pc = "done"
     /\ props = <<>>
     /\ FirstMatch(carbon_df, PipelineTicker) = 0
     /\ titles = <<<<>>, <<>>, <<>>>>) =>
        LET res == result[1]
            fifty == 50 * Cents
        IN /\ res.climate_score = fifty
           /\ res.carbon_score = fifty
           /\ res.gov_score_1y = fifty /\ res.gov_score_5y = fifty /\ res.gov_score_10y = fifty
           /\ res.final_esg_1y = fifty /\ res.final_esg_5y = fifty /\ res.final_esg_10y = fifty
           /\ \A a, b, c \in SliderValues :
                  \A g \in {res.gov_score_1y, res.gov_score_5y, res.gov_score_10y} :
                      AppCombine(res.climate_score, res.carbon_score, g,
                                 NormalizeWeights(a, b, c)) = fifty

C13_Witness ==
    /\ pc = "done"
    /\ props = <<>>
    /\ Len(carbon_df) = 1
    /\ FirstMatch(carbon_df, PipelineTicker) = 0
    /\ titles = <<<<>>, <<>>, <<>>>>
    /\ result[1].final_esg_10y = 50 * Cents

\* s is a cleaned text: no footnote marker, every whitespace a single space
\* between two other characters
IsCleaned(s) ==
    /\ \A i \in DOMAIN s : FootnoteLen(s, i) = 0
    /\ \A i \in DOMAIN s : s[i] \in WS => s[i] = " " /\ i > 1 /\ i < Len(s) /\ s[i + 1] \notin WS

\* C18: every address the extractor hands to the loop of score_reit has been
\* cleaned (whitespace collapsed to single spaces, footnote markers stripped)
\* and is non-empty: a cell that the cleanup reduces to the empty string is
\* dropped, so the geocoding stage is given no empty address.
C18_AddressesCleanAndNonEmpty ==
    pc \in {"loop", "heat", "elev", "sleep", "carbon", "governance", "combine", "done"} =>
        \A k \in DOMAIN props :
            /\ props[k].address # <<>>
            /\ IsCleaned(props[k].address)

\* C12: every run ends with a score bundle or with an error, also when an
\* external backend never responds: every external call is bounded by a timeout.
C12_RunTerminates == <>(pc \in {"done", "aborted"})

----------------------------------------------------------------------------
(* Properties of the carbon scorer *)

CsMatches == {i \in DOMAIN cs_df : UpperTicker[cs_df[i].ticker] = UpperTicker[cs_ticker]}
CsFirst == CHOOSE i \in CsMatches : \A j \in CsMatches : i <= j
\* no matching row, or its area is zero or missing, or its tonnage is missing
CsUndefined ==
    \/ CsMatches = {}
    \/ cs_df[CsFirst].area \in {<<>>, <<0>>}
    \/ cs_df[CsFirst].tonnes = <<>>

\* C6: if no row matches the ticker case-insensitively, or the matched row's area
\* is zero or missing, or its tonnage is missing, the intensity is undefined and
\* the score of the pipeline is the neutral 50.0; otherwise the intensity is
\* tonnes x 1000 / area of the first matching row.
C6_UndefinedIntensityIsNeutral ==
    cs_pc = "scored" =>
        IF CsUndefined
        THEN cs_ci.kind = "None" /\ cs_score = NEUTRAL
        ELSE /\ cs_ci.kind = "num"
             /\ cs_ci.num * cs_df[CsFirst].area[1]
                    = cs_df[CsFirst].tonnes[1] * 1000 * cs_ci.den

\* the score the breakpoints give kg = num / den
BandOf(num, den) ==
    IF num < 3 * den THEN 10
    ELSE IF num < 8 * den THEN 35
    ELSE IF num < 15 * den THEN 60
    ELSE IF num < 25 * den THEN 80
    ELSE 95

\* the eight boundary values of the scorer, in hundredths, and their scores
BoundaryScores ==
    <<[kg |-> 299, score |-> 10], [kg |-> 300, score |-> 35], [kg |-> 799, score |-> 35],
      [kg |-> 800, score |-> 60], [kg |-> 1499, score |-> 60], [kg |-> 1500, score |-> 80],
      [kg |-> 2499, score |-> 80], [kg |-> 2500, score |-> 95]>>

\* C17: for every defined intensity carbon_score_0_100 returns 10 if kg < 3, 35
\* if 3 <= kg < 8, 60 if 8 <= kg < 15, 80 if 15 <= kg < 25 and 95 otherwise
\* (half-open: 2.99, 3.0, 7.99, 8.0, 14.99, 15.0, 24.99, 25.0 give 10, 35, 35,
\* 60, 60, 80, 80, 95), and carbon_score_0_100(None) = 50.0.
C17_HalfOpenBreakpoints ==
    cs_pc = "scored" =>
        /\ cs_ci.kind = "None" => cs_score = 50
        /\ cs_ci.kind = "num" =>
               /\ cs_score = BandOf(cs_ci.num, cs_ci.den)
               /\ \A k \in DOMAIN BoundaryScores :
                      cs_ci.num * Cents = BoundaryScores[k].kg * cs_ci.den =>
                          cs_score = BoundaryScores[k].score

C17_Witness ==
    /\ cs_pc = "scored"
    /\ cs_ci = CiNum(300, Cents)
    /\ cs_score = 35

----------------------------------------------------------------------------
(* Properties of the extractor *)

NoDuplicates(recs) ==
    \A i, j \in DOMAIN recs : recs[i].address = recs[j].address => i = j

\* the position of the first occurrence of x in xs
FirstPos(xs, x) == CHOOSE i \in DOMAIN xs : xs[i] = x /\ \A j \in 1..(i - 1) : xs[j] # x

\* recs holds each text of source once, in the order of the first occurrences
FirstSeenOrder(recs, source) ==
    /\ {recs[i].address : i \in DOMAIN recs} = {source[i] : i \in DOMAIN source}
    /\ \A i, j \in DOMAIN recs :
           i < j => FirstPos(source, recs[i].address) < FirstPos(source, recs[j].address)

\* C9: the records returned by the extractor (parse_property_addresses as well as
\* extract_addresses_from_table0_col0) hold no address twice and stand in the
\* order of their first occurrence in the source.
C9_DeduplicatedInOrder ==
    /\ px_pc \in {"parsed", "done"} =>
           /\ NoDuplicates(px_out)
           /\ px_out # <<>> /\ px_table # <<>> /\ ParseHtmlWithPandas(px_table) # <<>> =>
                  FirstSeenOrder(px_out,
                      [k \in DOMAIN ParseHtmlWithPandas(px_table) |->
                          ParseHtmlWithPandas(px_table)[k].address])
    /\ px_pc = "done" =>
           /\ NoDuplicates(px_col0)
           /\ FirstSeenOrder(px_col0, Col0Texts(Column(ReadHtml(px_table[1]), 1)))

\* the records each step of the chain yields on its own
PxSectionRecords == ParseHtmlWithPandas(px_table)
PxFullRecords == ParseHtmlWithPandas(px_full)

----------------------------------------------------------------------------
(* Properties of the section locator *)

\* the tables returned, none when the locator returned None
LcReturned == IF lc_out = <<>> THEN <<>> ELSE lc_out[1]

\* the tables of d that lie after the heading of node h and before the node of
\* the first boundary that follows it (to the end of d when none follows)
TablesOfSection(d, h) == SelectSeq(SubSeq(d, h + 1, EndIdx(d, h) - 1), IsTable)

\* C11: for a document with an 'Item 2 ... Properties' heading the locator
\* returns only the tables that lie after the heading and before the first
\* following 'Item 3' / 'Part II' / 'Signatures' boundary, so nothing at or past
\* the boundary is returned; with no boundary the span runs to the end of the
\* document; with no heading it signals not-found.
C11_OnlyTablesOfSection ==
    lc_pc = "done" =>
        /\ HeadingIdx(lc_doc) = 0 => lc_out = <<>>
        /\ HeadingIdx(lc_doc) # 0 =>
               /\ LcReturned = TablesOfSection(lc_doc, HeadingIdx(lc_doc))
               /\ \A k \in DOMAIN LcReturned : ~HasEnd(LcReturned[k])

----------------------------------------------------------------------------
(* Properties of the weights and of the combiners *)

AppGov == <<app_scores.gov_score_1y, app_scores.gov_score_5y, app_scores.gov_score_10y>>

\* the weighted sum of the sub-scores at horizon h under weights w, times w.den
WeightedSum(w, h) ==
    w.climate * app_scores.climate_score + w.carbon * app_scores.carbon_score
        + w.gov * AppGov[h]

\* r is the weighted sum at horizon h rounded to two decimals, and lies in [0, 100]
IsCombination(r, w, h) ==
    /\ 2 * (r * w.den - WeightedSum(w, h)) <= w.den
    /\ 2 * (WeightedSum(w, h) - r * w.den) <= w.den
    /\ r >= 0 /\ r <= 100 * Cents

\* C14: for sub-scores in [0,100] and the weight vector the caller supplies
\* (non-negative, summing to 1) the combiner, that of the pipeline as well as
\* that of the app, returns weights.climate*climate + weights.carbon*carbon +
\* weights.gov*governance rounded to 2 decimals, within [0,100]; so
\* combine(100,0,0,{1,0,0}) = 100.00 and combine(40,60,80, thirds) = 60.00.
C14_CombinerAppliesCallerWeights ==
    /\ app_pc = "shown" =>
           \A h \in 1..3 :
               /\ IsCombination(app_final[h], user_weights[1], h)
               /\ IsCombination(app_pipeline[h], user_weights[1], h)
    /\ (/\ app_pc = "shown"
        /\ app_sliders = <<100, 0, 0>>
        /\ app_scores.climate_score = 100 * Cents
        /\ app_scores.carbon_score = 0
        /\ app_scores.gov_score_1y = 0) =>
           app_final[1] = 100 * Cents /\ app_pipeline[1] = 100 * Cents
    /\ (/\ app_pc = "shown"
        /\ app_sliders \in {<<0, 0, 0>>, <<33, 33, 33>>}
        /\ app_scores.climate_score = 40 * Cents
        /\ app_scores.carbon_score = 60 * Cents
        /\ app_scores.gov_score_1y = 80 * Cents) =>
           app_final[1] = 60 * Cents /\ app_pipeline[1] = 60 * Cents

\* C15: for every triple of non-negative weights, normalize_weights returns three
\* entries that are all >= 0 and sum to 1; when the inputs sum to zero it
\* returns exactly 1/3, 1/3, 1/3.
C15_WeightsNormalized ==
    app_pc \in {"scoring", "combine", "shown"} =>
        LET w == user_weights[1]
        IN /\ w.den > 0
           /\ w.climate >= 0 /\ w.carbon >= 0 /\ w.gov >= 0
           /\ w.climate + w.carbon + w.gov = w.den
           /\ app_sliders[1] + app_sliders[2] + app_sliders[3] = 0 =>
                  3 * w.climate = w.den /\ 3 * w.carbon = w.den /\ 3 * w.gov = w.den
           /\ app_sliders[1] + app_sliders[2] + app_sliders[3] > 0 =>
                  /\ w.climate * (app_sliders[1] + app_sliders[2] + app_sliders[3])
                         = app_sliders[1] * w.den
                  /\ w.carbon * (app_sliders[1] + app_sliders[2] + app_sliders[3])
                         = app_sliders[2] * w.den
                  /\ w.gov * (app_sliders[1] + app_sliders[2] + app_sliders[3])
                         = app_sliders[3] * w.den

C15_Witness ==
    /\ app_pc = "scoring"
    /\ app_sliders = <<0, 0, 0>>
    /\ 3 * user_weights[1].gov = user_weights[1].den

----------------------------------------------------------------------------
(* Properties of the price projection *)

Abs(x) == IF x < 0 THEN 0 - x ELSE x
PjClamped(h) == Clamp(0, 100, pj_in.final_esg[h])

\* the adjustment and the price of horizon h follow the two formulas, and the
\* adjustment is at most beta in size
ProjectionFormulas(h) ==
    LET out == pj_out[1]
    IN /\ out.adj_pct[h] * 50 = pj_in.beta[h] * (PjClamped(h) - 50) * (PctDen \div 100)
       /\ out.price[h] = pj_in.current_price * (PctDen + out.adj_pct[h])
       /\ Abs(out.adj_pct[h]) * 100 <= pj_in.beta[h] * PctDen
       /\ PjClamped(h) = 50 => out.price[h] = pj_in.current_price * PctDen

\* score 100 with beta 0.10 on price 100.0 gives +10% and 110.00
ProjectionExample(h) ==
    (/\ pj_in.final_esg[h] = 100
     /\ pj_in.beta[h] = 10
     /\ pj_in.current_price = 100 * Cents) =>
        /\ pj_out[1].adj_pct[h] * 10 = PctDen
        /\ pj_out[1].price[h] = 110 * Cents * PctDen

\* C16 as claimed: pct = beta * (clamp(0,100,score) - 50) / 50 and projected_price
\* = current_price * (1 + pct) for every price, score and beta >= 0, with
\* |pct| <= beta and equality only at the clamped extremes 0 and 100.
C16_EqualityOnlyAtExtremes ==
    pj_pc = "done" =>
        \A h \in 1..3 :
            /\ ProjectionFormulas(h)
            /\ ProjectionExample(h)
            /\ Abs(pj_out[1].adj_pct[h]) * 100 = pj_in.beta[h] * PctDen =>
                   PjClamped(h) \in {0, 100}

\* C16 as amended: the same formulas and bound; for beta > 0 the bound is
\* reached exactly at the clamped extremes 0 and 100, and for beta = 0 the
\* adjustment is 0 (and so equal to beta) at every score.
C16_LinearProjection ==
    pj_pc = "done" =>
        \A h \in 1..3 :
            /\ ProjectionFormulas(h)
            /\ ProjectionExample(h)
            /\ pj_in.beta[h] > 0 =>
                   (Abs(pj_out[1].adj_pct[h]) * 100 = pj_in.beta[h] * PctDen
                        <=> PjClamped(h) \in {0, 100})
            /\ pj_in.beta[h] = 0 => pj_out[1].adj_pct[h] = 0

C16_Witness ==
    /\ pj_pc = "done"
    /\ pj_in.current_price = 100 * Cents
    /\ pj_in.beta = DEFAULT_BETAS
    /\ pj_in.final_esg = <<100, 130, 0 - 20>>
    /\ pj_out[1].price = <<110 * Cents * PctDen, 120 * Cents * PctDen, 70 * Cents * PctDen>>

====
